---- MODULE Spec2Model ----
(***************************************************************************)
(* The CMOS / RTC module of maestro_cmos (src/src/mod.rs, src/src/rtc.rs) *)
(* as a state machine: one kernel execution context running the module's  *)
(* entry points one port access at a time, the RTC interrupt handler that  *)
(* preempts it whenever maskable interrupts are enabled, and the CMOS     *)
(* device behind the select port 0x70 and the value port 0x71.            *)
(***************************************************************************)
EXTENDS Integers, Sequences, FiniteSets, TLC

(* ------------------------------------------------------------------ *)
(* Program constants                                                   *)
(* ------------------------------------------------------------------ *)
SECOND_REGISTER == 0
MINUTE_REGISTER == 2
HOUR_REGISTER == 4
DAY_OF_MONTH_REGISTER == 7
MONTH_REGISTER == 8
YEAR_REGISTER == 9
CENTURY_REGISTER == 50
STATUS_A_REGISTER == 10
STATUS_B_REGISTER == 11
STATUS_C_REGISTER == 12
FLOPPY_DRIVE_REGISTER == 16
UPDATE_FLAG == 128
FORMAT_24_FLAG == 2
FORMAT_BCD_FLAG == 4
\* bit 7 of the byte written to the select port by read() (1 << 7)
NMI_BIT == 128
\* bit 6 of status register B: periodic interrupt enable (0x40)
PIE_BIT == 64
\* rate selection written to the low nibble of status register A
RTC_RATE == 3
\* the handler folds this many interrupts into one millisecond
TICKS_PER_MS == 8
\* the century assumed when the century register is absent
DEFAULT_CENTURY == 20

(* ------------------------------------------------------------------ *)
(* Bounds of the model                                                 *)
(* ------------------------------------------------------------------ *)
\* periodic interrupts the device raises in one behaviour
MaxFirings == 9

(* ------------------------------------------------------------------ *)
(* Integer helpers: u8 / u32 / u64 arithmetic and bit operations       *)
(* ------------------------------------------------------------------ *)
\* u32 and u64 values are little-endian sequences of 16-bit limbs (2 and 4
\* limbs): TLC's integers are narrower than the program's.
LimbBase == 256 * 256

RECURSIVE ToLimbs(_, _)
ToLimbs(v, n) == IF n = 0 THEN << >> ELSE << v % LimbBase >> \o ToLimbs(v \div LimbBase, n - 1)

W32(v) == ToLimbs(v, 2)
W64(v) == ToLimbs(v, 4)

\* x + y + c limb by limb; the result has one limb more than x: the carry out
RECURSIVE AddLimbs(_, _, _, _)
AddLimbs(x, y, i, c) ==
    IF i > Len(x) THEN << c >>
    ELSE LET s == x[i] + y[i] + c
         IN  << s % LimbBase >> \o AddLimbs(x, y, i + 1, s \div LimbBase)

\* x - y - b limb by limb; the last limb of the result is the borrow out
RECURSIVE SubLimbs(_, _, _, _)
SubLimbs(x, y, i, b) ==
    IF i > Len(x) THEN << b >>
    ELSE LET d == x[i] - y[i] - b
         IN  << (d + LimbBase) % LimbBase >> \o SubLimbs(x, y, i + 1, IF d < 0 THEN 1 ELSE 0)

\* x * m + c for a multiplier m < 2^15; the last limb of the result is the carry out
RECURSIVE MulLimbs(_, _, _, _)
MulLimbs(x, m, i, c) ==
    IF i > Len(x) THEN << c >>
    ELSE LET p == x[i] * m + c
         IN  << p % LimbBase >> \o MulLimbs(x, m, i + 1, p \div LimbBase)

\* x / d for a divisor d < 2^15, from the top limb down (r is the running remainder)
RECURSIVE DivLimbs(_, _, _, _)
DivLimbs(x, d, i, r) ==
    IF i = 0 THEN << >>
    ELSE LET t == r * LimbBase + x[i]
         IN  DivLimbs(x, d, i - 1, t % d) \o << t \div d >>

\* the result of one u32 operation: the wrapped value v and whether the exact
\* result left the u32 range (o)
Add32(a, b) == LET s == AddLimbs(a, b, 1, 0) IN [v |-> SubSeq(s, 1, 2), o |-> s[3] # 0]
Sub32(a, b) == LET s == SubLimbs(a, b, 1, 0) IN [v |-> SubSeq(s, 1, 2), o |-> s[3] # 0]
Mul32(a, m) == LET s == MulLimbs(a, m, 1, 0) IN [v |-> SubSeq(s, 1, 2), o |-> s[3] # 0]
Div32(a, d) == DivLimbs(a, d, 2, 0)
Ge32(a, k) == a[2] > 0 \/ a[1] >= k
Add64(a, b) == SubSeq(AddLimbs(a, b, 1, 0), 1, 4)
Mul64(a, m) == SubSeq(MulLimbs(a, m, 1, 0), 1, 4)
Div64(a, d) == DivLimbs(a, d, 4, 0)

RECURSIVE BitAnd(_, _)
BitAnd(a, b) ==
    IF a = 0 \/ b = 0 THEN 0
    ELSE (IF a % 2 = 1 /\ b % 2 = 1 THEN 1 ELSE 0) + 2 * BitAnd(a \div 2, b \div 2)

RECURSIVE BitOr(_, _)
BitOr(a, b) ==
    IF a = 0 THEN b
    ELSE IF b = 0 THEN a
    ELSE (IF a % 2 = 1 \/ b % 2 = 1 THEN 1 ELSE 0) + 2 * BitOr(a \div 2, b \div 2)

\* !m on a u8
BitNot8(m) == 255 - m

\* Option<T>: None is the empty sequence, Some(v) is <<v>>
None == << >>
Some(v) == << v >>
is_some(o) == Len(o) = 1
is_none(o) == ~is_some(o)
unwrap(o) == o[1]

(* ------------------------------------------------------------------ *)
(* Time decoder: pure functions of src/src/mod.rs                      *)
(* ------------------------------------------------------------------ *)
is_leap_year_every_fourth(year) == year % 4 = 0

is_leap_year(year) ==
    IF year % 4 # 0 THEN FALSE
    ELSE IF year % 100 # 0 THEN TRUE
    ELSE year % 400 = 0

\* range.filter(is_leap_year).count() over the half-open range y0..y1 (empty
\* when y1 <= y0)
leap_years_between(y0, y1) == Cardinality({year \in y0..(y1 - 1) : is_leap_year(year)})

\* year is a plain integer (it never exceeds 255 + 255 * 100); month and day are
\* u32 values, which the two decrements of the caller may have wrapped
get_days_since_epoch(year, month, day) ==
    LET y0 == Sub32(W32(year), W32(1970))
        y1 == Mul32(y0.v, 365)
        year_days == Add32(y1.v, W32(leap_years_between(1970, year)))
        m1 == Add32(month, W32(1))
        a == Mul32(Div32(m1.v, 2), 31)
        b == Mul32(Div32(month, 2), 30)
        md0 == Add32(a.v, b.v)
        leap == is_leap_year(year) /\ Ge32(month, 2)
        md == IF leap THEN Add32(md0.v, W32(1)) ELSE [v |-> md0.v, o |-> FALSE]
        s1 == Add32(year_days.v, md.v)
        s2 == Add32(s1.v, day)
    IN  [v |-> s2.v,
         o |-> y0.o \/ y1.o \/ year_days.o \/ m1.o \/ a.o \/ b.o \/ md0.o \/ md.o
               \/ s1.o \/ s2.o]

BcdToBinarySixteens(value) == BitAnd(value, 15) + ((value \div 16) * 16)

\* (value & 0x0f) + ((value / 16) * 10)
BcdToBinary(value) == BitAnd(value, 15) + ((value \div 16) * 10)

\* ((hour & 0x0f) + (((hour & 0x70) / 16) * 10)) | (hour & 0x80)
BcdHourToBinary(hour) ==
    BitOr(BitAnd(hour, 15) + ((BitAnd(hour, 112) \div 16) * 10), BitAnd(hour, 128))

\* the 12-hour to 24-hour rule of CMOSClock::init
To24Hour(hour, status_b) ==
    IF BitAnd(status_b, FORMAT_24_FLAG) = 0 /\ BitAnd(hour, 128) # 0
    THEN (BitAnd(hour, 127) + 12) % 24
    ELSE hour

MulSecondsPerHour(days) ==
    LET p == MulLimbs(MulLimbs(days, 36, 1, 0), 100, 1, 0)
    IN  [v |-> SubSeq(p, 1, 2), o |-> p[3] # 0 \/ p[4] # 0]

\* days_since_epoch * 86400 in u32: the exact product (86400 = 864 * 100) and
\* whether it left the u32 range
MulSecondsPerDay(days) ==
    LET p == MulLimbs(MulLimbs(days, 864, 1, 0), 100, 1, 0)
    IN  [v |-> SubSeq(p, 1, 2), o |-> p[3] # 0 \/ p[4] # 0]

\* The body of CMOSClock::init after the register reads. r holds the bytes read
\* (century is 20 when there is no century register). The result is the
\* timestamp (u64) a build without overflow checks caches, the decoded fields,
\* and whether some u32 operation overflowed (o): a build with overflow checks
\* panics there.
Decode(r, status_b, has_century) ==
    LET bcd == BitAnd(status_b, FORMAT_BCD_FLAG) = 0
        second == IF bcd THEN BcdToBinary(r.second) ELSE r.second
        minute == IF bcd THEN BcdToBinary(r.minute) ELSE r.minute
        hour0 == IF bcd THEN BcdHourToBinary(r.hour) ELSE r.hour
        day0 == IF bcd THEN BcdToBinary(r.day) ELSE r.day
        month0 == IF bcd THEN BcdToBinary(r.month) ELSE r.month
        year0 == IF bcd THEN BcdToBinary(r.year) ELSE r.year
        century == IF bcd /\ has_century THEN BcdToBinary(r.century) ELSE r.century
        hour == To24Hour(hour0, status_b)
        day == Sub32(W32(day0), W32(1))
        month == Sub32(W32(month0), W32(1))
        year == year0 + century * 100
        days == get_days_since_epoch(year, month.v, day.v)
        secs == MulSecondsPerDay(days.v)
        ts == Add64(Add64(Add64(secs.v \o << 0, 0 >>, W64(hour * 3600)),
                          W64(minute * 60)), W64(second))
    IN  [ts |-> ts, o |-> day.o \/ month.o \/ days.o \/ secs.o,
         second |-> second, minute |-> minute, hour |-> hour,
         day |-> day.v, month |-> month.v, year |-> year, days |-> days.v]

\* TimestampScale: the power of ten of each scale
Scales == {"Second", "Millisecond", "Microsecond", "Nanosecond"}
ScalePower(s) ==
    CASE s = "Second" -> 0
      [] s = "Millisecond" -> 1
      [] s = "Microsecond" -> 2
      [] s = "Nanosecond" -> 3

RECURSIVE MulThousand(_, _)
MulThousand(ts, n) == IF n = 0 THEN ts ELSE MulThousand(Mul64(ts, 1000), n - 1)

RECURSIVE DivThousand(_, _)
DivThousand(ts, n) == IF n = 0 THEN ts ELSE DivThousand(Div64(ts, 1000), n - 1)

\* TimestampScale::convert(ts, from, to): a linear rescale between powers of 1000
Convert(ts, from, to) ==
    IF ScalePower(to) >= ScalePower(from)
    THEN MulThousand(ts, ScalePower(to) - ScalePower(from))
    ELSE DivThousand(ts, ScalePower(from) - ScalePower(to))

(* ------------------------------------------------------------------ *)
(* State                                                               *)
(* ------------------------------------------------------------------ *)
VARIABLES
    \* the CMOS device: the select latch behind port 0x70, the bytes of the time
    \* registers, the status registers, the floppy byte, and the
    \* interrupt request the device has raised and the CPU has not yet taken
    sel, rtcTime, statusA, statusB, statusC, floppyReg, irqLine,
    \* the CPU: the maskable-interrupt flag and the position of the handler
    intFlag, irqPc,
    \* the kernel: registered clock source names, whether the callback of
    \* rtc::init is registered, and the shared millisecond timestamp
    clockSources, callbackRegistered, tickTimestamp,
    \* CMOSClock's fields and the statics of rtc.rs
    century_register, timestamp, RTC_HANDLE, COUNTER,
    \* the execution context that runs the module's functions: its position and
    \* locals, the value the last call returned, and what init returned
    pc, savedFlag, prev, raw, scale, ret, initResult,
    \* history: handler invocations, status C reads by the handler, the first
    \* decoded timestamp, what time_wait observed, who last used the ports
    firings, acks, firstDecoded, tw, lastPortUser

vars == << sel, rtcTime, statusA, statusB, statusC, floppyReg, irqLine,
           intFlag, irqPc, clockSources, callbackRegistered, tickTimestamp,
           century_register, timestamp, RTC_HANDLE, COUNTER,
           pc, savedFlag, prev, raw, scale, ret, initResult,
           firings, acks, firstDecoded, tw, lastPortUser >>

kernelVars == << clockSources, callbackRegistered, tickTimestamp >>
clockVars == << century_register, timestamp >>
rtcVars == << RTC_HANDLE, COUNTER >>
localVars == << savedFlag, prev, raw, scale, ret, initResult >>
countVars == << firings, acks >>

\* raw register bytes the device may hold: second, minute, hour, day of month,
\* month, year, century
RawTime(s, mi, h, d, mo, y, c) ==
    [second |-> s, minute |-> mi, hour |-> h, day |-> d, month |-> mo, year |-> y,
     century |-> c]

Snapshots ==
    << RawTime(69, 48, 130, 1, 1, 36, 32),    \* 0x45 0x30 0x82 0x01 0x01 0x24 0x20
       RawTime(0, 0, 0, 1, 1, 36, 32),        \* 2024-01-01 00:00:00 in BCD
       RawTime(89, 89, 35, 0, 18, 153, 25) >> \* day of month 0

SnapshotSet == {Snapshots[i] : i \in 1..Len(Snapshots)}

\* status register B values the firmware may leave: BCD 12-hour, BCD 24-hour,
\* binary 24-hour
InitialStatusB == {0, 2, 6}

NoObservation == [entry |-> "none", saw |-> FALSE, last |-> "none"]

Init ==
    /\ sel = 0
    /\ rtcTime \in SnapshotSet
    /\ statusA = 38
    /\ statusB \in InitialStatusB
    /\ statusC = 0
    /\ floppyReg = 64
    /\ irqLine = FALSE
    /\ intFlag \in BOOLEAN
    /\ irqPc = "idle"
    /\ clockSources = {}
    /\ callbackRegistered = FALSE
    /\ tickTimestamp = 0
    /\ century_register \in BOOLEAN
    /\ timestamp = None
    /\ RTC_HANDLE = "None"
    /\ COUNTER = 0
    /\ pc = "unloaded"
    /\ savedFlag = FALSE
    /\ prev = 0
    /\ raw = << >>
    /\ scale = "Second"
    /\ ret = None
    /\ initResult = None
    /\ firings = 0
    /\ acks = 0
    /\ firstDecoded = None
    /\ tw = NoObservation
    /\ lastPortUser = "none"

(* ------------------------------------------------------------------ *)
(* The device behind the two ports                                     *)
(* ------------------------------------------------------------------ *)
\* the register the select latch designates (bit 7 is the NMI disable bit)
Selected == sel % 128

CmosRead(r) ==
    CASE r = SECOND_REGISTER -> rtcTime.second
      [] r = MINUTE_REGISTER -> rtcTime.minute
      [] r = HOUR_REGISTER -> rtcTime.hour
      [] r = DAY_OF_MONTH_REGISTER -> rtcTime.day
      [] r = MONTH_REGISTER -> rtcTime.month
      [] r = YEAR_REGISTER -> rtcTime.year
      [] r = CENTURY_REGISTER -> rtcTime.century
      [] r = STATUS_A_REGISTER -> statusA
      [] r = STATUS_B_REGISTER -> statusB
      [] r = STATUS_C_REGISTER -> statusC
      [] r = FLOPPY_DRIVE_REGISTER -> floppyReg
      [] OTHER -> 0

\* io::inb(VALUE_PORT): the value read
ValuePort == CmosRead(Selected)

\* io::outb(SELECT_PORT, v)
SelectOut(v, who) ==
    /\ sel' = v
    /\ lastPortUser' = who
    /\ UNCHANGED << rtcTime, statusA, statusB, statusC, floppyReg, irqLine >>

\* io::inb(VALUE_PORT): the effect on the device (reading status C clears it)
ValueIn(who) ==
    /\ statusC' = IF Selected = STATUS_C_REGISTER THEN 0 ELSE statusC
    /\ lastPortUser' = who
    /\ UNCHANGED << sel, rtcTime, statusA, statusB, floppyReg, irqLine >>

\* io::outb(VALUE_PORT, v): the update-in-progress bit of status A is read-only
ValueOut(v, who) ==
    /\ statusA' = IF Selected = STATUS_A_REGISTER
                  THEN BitOr(BitAnd(v, 127), BitAnd(statusA, UPDATE_FLAG))
                  ELSE statusA
    /\ statusB' = IF Selected = STATUS_B_REGISTER THEN v ELSE statusB
    /\ lastPortUser' = who
    /\ UNCHANGED << sel, rtcTime, statusC, floppyReg, irqLine >>

\* the device starts its once-per-second update cycle. A cycle that time_wait
\* saw end is followed by the next one a second later: none starts during the
\* register reads that follow time_wait.
HwUpdateBegin ==
    /\ BitAnd(statusA, UPDATE_FLAG) = 0
    /\ pc \notin {"rd_sel", "rd_val", "decode"}
    /\ statusA' = BitOr(statusA, UPDATE_FLAG)
    /\ UNCHANGED << sel, rtcTime, statusB, statusC, floppyReg, irqLine, intFlag, irqPc,
                    kernelVars, clockVars, rtcVars, pc, localVars, countVars,
                    firstDecoded, tw, lastPortUser >>

\* the update cycle ends: the time registers hold a new time
HwUpdateEnd ==
    /\ BitAnd(statusA, UPDATE_FLAG) # 0
    /\ statusA' = BitAnd(statusA, 127)
    /\ \E t \in SnapshotSet : rtcTime' = t
    /\ UNCHANGED << sel, statusB, statusC, floppyReg, irqLine, intFlag, irqPc,
                    kernelVars, clockVars, rtcVars, pc, localVars, countVars,
                    firstDecoded, tw, lastPortUser >>

\* the periodic interrupt: enabled by bit 0x40 of status B, and not raised again
\* until status C has been read
HwPeriodic ==
    /\ BitAnd(statusB, PIE_BIT) # 0
    /\ statusC = 0
    /\ firings < MaxFirings
    /\ statusC' = 192
    /\ irqLine' = TRUE
    /\ UNCHANGED << sel, rtcTime, statusA, statusB, floppyReg, intFlag, irqPc,
                    kernelVars, clockVars, rtcVars, pc, localVars, countVars,
                    firstDecoded, tw, lastPortUser >>

(* ------------------------------------------------------------------ *)
(* The interrupt handler registered by rtc::init                       *)
(* ------------------------------------------------------------------ *)
\* the CPU takes the interrupt and enters the registered callback
IrqDispatch ==
    /\ irqLine
    /\ intFlag
    /\ irqPc = "idle"
    /\ callbackRegistered
    /\ irqLine' = FALSE
    /\ intFlag' = FALSE
    /\ irqPc' = "count"
    /\ firings' = firings + 1
    /\ UNCHANGED << sel, rtcTime, statusA, statusB, statusC, floppyReg,
                    kernelVars, clockVars, rtcVars, pc, localVars, acks,
                    firstDecoded, tw, lastPortUser >>

\* the CPU takes the interrupt while no callback is registered: nothing of this
\* module runs
IrqUnhandled ==
    /\ irqLine
    /\ intFlag
    /\ irqPc = "idle"
    /\ ~callbackRegistered
    /\ irqLine' = FALSE
    /\ UNCHANGED << sel, rtcTime, statusA, statusB, statusC, floppyReg, intFlag, irqPc,
                    kernelVars, clockVars, rtcVars, pc, localVars, countVars,
                    firstDecoded, tw, lastPortUser >>

\* counter += 1; if counter == 8 { counter = 0 }
HandlerCounter(counter) ==
    LET c == counter + 1 IN IF c = TICKS_PER_MS THEN 0 ELSE c

\* what the callback adds to the shared timestamp for the counter value it
\* stores: the branch of counter == 8 holds only a TODO
HandlerMilliseconds(counter) == 0

ResetSelectStatusB == STATUS_B_REGISTER

\* the register reset() writes to the select port
ResetSelect == STATUS_C_REGISTER

IrqCount ==
    /\ irqPc = "count"
    /\ COUNTER' = HandlerCounter(COUNTER)
    /\ tickTimestamp' = tickTimestamp + HandlerMilliseconds(COUNTER')
    /\ irqPc' = "reset_sel"
    /\ UNCHANGED << sel, rtcTime, statusA, statusB, statusC, floppyReg, irqLine,
                    intFlag, clockSources, callbackRegistered, clockVars, RTC_HANDLE,
                    pc, localVars, countVars, firstDecoded, tw, lastPortUser >>

IrqResetSelect ==
    /\ irqPc = "reset_sel"
    /\ SelectOut(ResetSelect, "reset")
    /\ irqPc' = "reset_val"
    /\ UNCHANGED << intFlag, kernelVars, clockVars, rtcVars, pc, localVars, countVars,
                    firstDecoded, tw >>

\* reset() reads the value port and the callback returns
IrqResetRead ==
    /\ irqPc = "reset_val"
    /\ ValueIn("reset")
    /\ acks' = IF Selected = STATUS_C_REGISTER THEN acks + 1 ELSE acks
    /\ irqPc' = "idle"
    /\ intFlag' = TRUE
    /\ UNCHANGED << kernelVars, clockVars, rtcVars, pc, localVars, firings,
                    firstDecoded, tw >>

(* ------------------------------------------------------------------ *)
(* Module initialisation: init, init_ and rtc::init                    *)
(* ------------------------------------------------------------------ *)
\* the name CMOSClock::get_name reports, under which the registry keeps the clock
get_name == "cmos"

\* the name fini passes to time::remove_clock_source
RemovedName == "CMOS"

WrapKeepsFlag(flag) == flag

\* idt::wrap_disable_interrupts: the interrupt flag while the closure runs
WrapDisabled(flag) == FALSE

\* the value rtc::init writes to status register B: prev | 0x40
EnableStatusB(p) == BitOr(p, PIE_BIT)

\* the value rtc::init writes to status register A: (prev & 0xF0) | 3
RateStatusA(p) == BitOr(BitAnd(p, 240), RTC_RATE)

DisableStatusBKeeps(p) == p

DisableStatusBMasked(p) == BitAnd(p, PIE_BIT)

\* the value rtc::fini writes to status register B: prev & !0x40
DisableStatusB(p) == BitAnd(p, BitNot8(PIE_BIT))

Running == irqPc = "idle"

\* init_: CMOSClock::new and time::add_clock_source, which may refuse
ModuleInit ==
    /\ Running
    /\ pc = "unloaded"
    /\ \E ok \in BOOLEAN :
          IF ok
          THEN /\ clockSources' = clockSources \cup {get_name}
               /\ pc' = "rtc_init"
               /\ initResult' = initResult
          ELSE /\ clockSources' = clockSources
               /\ pc' = "init_failed"
               /\ initResult' = Some(FALSE)
    /\ UNCHANGED << sel, rtcTime, statusA, statusB, statusC, floppyReg, irqLine,
                    intFlag, irqPc, callbackRegistered, tickTimestamp, clockVars,
                    rtcVars, savedFlag, prev, raw, scale, ret, countVars,
                    firstDecoded, tw, lastPortUser >>

RtcInitEnter ==
    /\ Running
    /\ pc = "rtc_init"
    /\ savedFlag' = intFlag
    /\ intFlag' = WrapDisabled(intFlag)
    /\ pc' = "ri_b_sel1"
    /\ UNCHANGED << sel, rtcTime, statusA, statusB, statusC, floppyReg, irqLine, irqPc,
                    kernelVars, clockVars, rtcVars, prev, raw, scale, ret, initResult,
                    countVars, firstDecoded, tw, lastPortUser >>

\* the frame of a port access of the main context that changes at most pc and prev
MainIoFrame ==
    UNCHANGED << intFlag, irqPc, kernelVars, clockVars, rtcVars, savedFlag, raw, scale,
                 ret, initResult, countVars, firstDecoded, tw >>

\* "Enable RTC": select B, read prev, select B, write prev | 0x40
RtcInitEnable ==
    /\ Running
    /\ \/ /\ pc = "ri_b_sel1"
          /\ SelectOut(BitOr(STATUS_B_REGISTER, NMI_BIT), "rtc_init")
          /\ pc' = "ri_b_read" /\ prev' = prev
       \/ /\ pc = "ri_b_read"
          /\ ValueIn("rtc_init")
          /\ pc' = "ri_b_sel2" /\ prev' = ValuePort
       \/ /\ pc = "ri_b_sel2"
          /\ SelectOut(BitOr(STATUS_B_REGISTER, NMI_BIT), "rtc_init")
          /\ pc' = "ri_b_write" /\ prev' = prev
       \/ /\ pc = "ri_b_write"
          /\ ValueOut(EnableStatusB(prev), "rtc_init")
          /\ pc' = "ri_a_sel1" /\ prev' = prev
    /\ MainIoFrame

\* "Set frequency": select A, read prev, select A, write (prev & 0xF0) | 3
RtcInitRate ==
    /\ Running
    /\ \/ /\ pc = "ri_a_sel1"
          /\ SelectOut(BitOr(STATUS_A_REGISTER, NMI_BIT), "rtc_init")
          /\ pc' = "ri_a_read" /\ prev' = prev
       \/ /\ pc = "ri_a_read"
          /\ ValueIn("rtc_init")
          /\ pc' = "ri_a_sel2" /\ prev' = ValuePort
       \/ /\ pc = "ri_a_sel2"
          /\ SelectOut(BitOr(STATUS_A_REGISTER, NMI_BIT), "rtc_init")
          /\ pc' = "ri_a_write" /\ prev' = prev
       \/ /\ pc = "ri_a_write"
          /\ ValueOut(RateStatusA(prev), "rtc_init")
          /\ pc' = "ri_restore" /\ prev' = prev
    /\ MainIoFrame

\* the end of wrap_disable_interrupts: the previous interrupt flag is restored
RtcInitRestore ==
    /\ Running
    /\ pc = "ri_restore"
    /\ intFlag' = savedFlag
    /\ savedFlag' = FALSE
    /\ prev' = 0
    /\ pc' = "ri_register"
    /\ UNCHANGED << sel, rtcTime, statusA, statusB, statusC, floppyReg, irqLine, irqPc,
                    kernelVars, clockVars, rtcVars, raw, scale, ret, initResult, countVars,
                    firstDecoded, tw, lastPortUser >>

\* event::register_callback, which may refuse, then RTC_HANDLE = Some(handle);
\* init returns whether init_ succeeded
RtcInitRegister ==
    /\ Running
    /\ pc = "ri_register"
    /\ \E ok \in BOOLEAN :
          IF ok
          THEN /\ callbackRegistered' = TRUE
               /\ RTC_HANDLE' = "Some"
               /\ initResult' = Some(TRUE)
               /\ pc' = "loaded"
          ELSE /\ callbackRegistered' = callbackRegistered
               /\ RTC_HANDLE' = RTC_HANDLE
               /\ initResult' = Some(FALSE)
               /\ pc' = "init_failed"
    /\ UNCHANGED << sel, rtcTime, statusA, statusB, statusC, floppyReg, irqLine,
                    intFlag, irqPc, clockSources, tickTimestamp, clockVars, COUNTER,
                    savedFlag, prev, raw, scale, ret, countVars,
                    firstDecoded, tw, lastPortUser >>

\* the kernel enables or disables maskable interrupts between calls into the module
KernelSetInterrupts ==
    /\ Running
    /\ pc = "loaded"
    /\ intFlag' = ~intFlag
    /\ UNCHANGED << sel, rtcTime, statusA, statusB, statusC, floppyReg, irqLine, irqPc,
                    kernelVars, clockVars, rtcVars, pc, localVars, countVars,
                    firstDecoded, tw, lastPortUser >>

(* ------------------------------------------------------------------ *)
(* CMOSClock::get_time and CMOSClock::init                             *)
(* ------------------------------------------------------------------ *)
InitRegistersWithCentury(has_century) ==
    << SECOND_REGISTER, MINUTE_REGISTER, HOUR_REGISTER, DAY_OF_MONTH_REGISTER,
       MONTH_REGISTER, YEAR_REGISTER, CENTURY_REGISTER, STATUS_B_REGISTER >>

\* the registers CMOSClock::init reads after time_wait, in order
InitRegisters(has_century) ==
    << SECOND_REGISTER, MINUTE_REGISTER, HOUR_REGISTER, DAY_OF_MONTH_REGISTER,
       MONTH_REGISTER, YEAR_REGISTER >>
    \o (IF has_century THEN << CENTURY_REGISTER >> ELSE << >>)
    \o << STATUS_B_REGISTER >>

\* the bytes read, as the locals of CMOSClock::init
RawRecord(bytes, has_century) ==
    RawTime(bytes[1], bytes[2], bytes[3], bytes[4], bytes[5], bytes[6],
            IF has_century THEN bytes[7] ELSE DEFAULT_CENTURY)

is_time_ready_inverted(status_a) == BitAnd(status_a, UPDATE_FLAG) # 0

\* read(STATUS_A_REGISTER) & UPDATE_FLAG == 0
is_time_ready(status_a) == BitAnd(status_a, UPDATE_FLAG) = 0

GetTimeResultSwapped(ts, to) == Convert(unwrap(ts), to, "Second")

\* get_time: TimestampScale::convert(self.timestamp.unwrap(), Second, scale)
GetTimeResult(ts, to) == Convert(unwrap(ts), "Second", to)

TimestampTaken(ts) == None

\* get_time leaves the cached timestamp in place: unwrap() copies it out
TimestampAfterGetTime(ts) == ts

\* the registry calls get_time(scale): if self.timestamp.is_none() { self.init() }
GetTimeCall ==
    /\ Running
    /\ pc = "loaded"
    /\ get_name \in clockSources
    /\ \E s \in Scales : scale' = s
    /\ ret' = None
    /\ pc' = IF is_none(timestamp) THEN "clock_init" ELSE "get_time_hit"
    /\ UNCHANGED << sel, rtcTime, statusA, statusB, statusC, floppyReg, irqLine,
                    intFlag, irqPc, kernelVars, clockVars, rtcVars, savedFlag, prev,
                    raw, initResult, countVars, firstDecoded, tw,
                    lastPortUser >>

\* CMOSClock::init: return if already initialised, else enter
\* wrap_disable_interrupts
ClockInitEnter ==
    /\ Running
    /\ pc = "clock_init"
    /\ IF is_some(timestamp)
       THEN /\ pc' = "get_time_hit"
            /\ UNCHANGED << intFlag, savedFlag, raw, tw >>
       ELSE /\ savedFlag' = intFlag
            /\ intFlag' = WrapDisabled(intFlag)
            /\ raw' = << >>
            /\ tw' = NoObservation
            /\ pc' = "tw1_sel"
    /\ UNCHANGED << sel, rtcTime, statusA, statusB, statusC, floppyReg, irqLine, irqPc,
                    kernelVars, clockVars, rtcVars, prev, scale, ret, initResult,
                    countVars, firstDecoded, lastPortUser >>

\* read(): io::outb(SELECT_PORT, (1 << 7) | reg)
ReadSelect(reg) == SelectOut(BitOr(NMI_BIT, reg), "read")

\* time_wait: the select half of each is_time_ready()
TimeWaitSelect ==
    /\ Running
    /\ pc \in {"tw1_sel", "tw2_sel"}
    /\ ReadSelect(STATUS_A_REGISTER)
    /\ pc' = IF pc = "tw1_sel" THEN "tw1_val" ELSE "tw2_val"
    /\ UNCHANGED << intFlag, irqPc, kernelVars, clockVars, rtcVars, localVars,
                    countVars, firstDecoded, tw >>

\* history: the update-in-progress bit of the status A byte a poll read
Observe(status_a) ==
    LET seen == IF BitAnd(status_a, UPDATE_FLAG) # 0 THEN "set" ELSE "clear"
    IN  [entry |-> IF tw.entry = "none" THEN seen ELSE tw.entry,
         saw |-> tw.saw \/ seen = "set",
         last |-> seen]

\* time_wait: the value half of is_time_ready() and the loop conditions:
\* while is_time_ready() {} ; while !is_time_ready() {}
TimeWaitPoll ==
    /\ Running
    /\ pc \in {"tw1_val", "tw2_val"}
    /\ ValueIn("read")
    /\ LET ready == is_time_ready(ValuePort)
       IN  /\ tw' = Observe(ValuePort)
           /\ pc' = IF pc = "tw1_val"
                    THEN (IF ready THEN "tw1_sel" ELSE "tw2_sel")
                    ELSE (IF ~ready THEN "tw2_sel" ELSE "rd_sel")
    /\ UNCHANGED << intFlag, irqPc, kernelVars, clockVars, rtcVars, localVars,
                    countVars, firstDecoded >>

\* the register reads of CMOSClock::init, one read() after the other
ClockReadSelect ==
    /\ Running
    /\ pc = "rd_sel"
    /\ ReadSelect(InitRegisters(century_register)[Len(raw) + 1])
    /\ pc' = "rd_val"
    /\ UNCHANGED << intFlag, irqPc, kernelVars, clockVars, rtcVars, localVars,
                    countVars, firstDecoded, tw >>

ClockReadValue ==
    /\ Running
    /\ pc = "rd_val"
    /\ ValueIn("read")
    /\ raw' = Append(raw, ValuePort)
    /\ pc' = IF Len(raw) + 1 = Len(InitRegisters(century_register))
             THEN "decode" ELSE "rd_sel"
    /\ UNCHANGED << intFlag, irqPc, kernelVars, clockVars, rtcVars, savedFlag, prev,
                    scale, ret, initResult, countVars, firstDecoded, tw >>

Decoded == Decode(RawRecord(raw, century_register), raw[Len(raw)], century_register)

\* the conversions and self.timestamp = Some(...): reached when no operation
\* overflows, and in a build without overflow checks also when one does
ClockDecodeStore ==
    /\ Running
    /\ pc = "decode"
    /\ timestamp' = Some(Decoded.ts)
    /\ firstDecoded' = IF is_none(firstDecoded) THEN Some(Decoded.ts) ELSE firstDecoded
    /\ raw' = << >>
    /\ tw' = NoObservation
    /\ pc' = "ct_restore"
    /\ UNCHANGED << sel, rtcTime, statusA, statusB, statusC, floppyReg, irqLine,
                    intFlag, irqPc, kernelVars, century_register, rtcVars, savedFlag,
                    prev, scale, ret, initResult, countVars, lastPortUser >>

\* a build with overflow checks panics at the first u32 operation that overflows
ClockDecodePanic ==
    /\ Running
    /\ pc = "decode"
    /\ Decoded.o
    /\ pc' = "panicked"
    /\ UNCHANGED << sel, rtcTime, statusA, statusB, statusC, floppyReg, irqLine,
                    intFlag, irqPc, kernelVars, clockVars, rtcVars, localVars,
                    countVars, firstDecoded, tw, lastPortUser >>

\* the end of wrap_disable_interrupts in CMOSClock::init
ClockInitRestore ==
    /\ Running
    /\ pc = "ct_restore"
    /\ intFlag' = savedFlag
    /\ savedFlag' = FALSE
    /\ prev' = 0
    /\ pc' = "get_time_ret"
    /\ UNCHANGED << sel, rtcTime, statusA, statusB, statusC, floppyReg, irqLine, irqPc,
                    kernelVars, clockVars, rtcVars, raw, scale, ret, initResult, countVars,
                    firstDecoded, tw, lastPortUser >>

\* get_time returns, after init ("get_time_ret") or without it ("get_time_hit")
GetTimeReturn ==
    /\ Running
    /\ pc \in {"get_time_ret", "get_time_hit"}
    /\ ret' = Some([call |-> "get_time", value |-> GetTimeResult(timestamp, scale),
                     scale |-> scale, from_cache |-> pc = "get_time_hit"])
    /\ timestamp' = TimestampAfterGetTime(timestamp)
    /\ pc' = "loaded"
    /\ UNCHANGED << sel, rtcTime, statusA, statusB, statusC, floppyReg, irqLine,
                    intFlag, irqPc, kernelVars, century_register, rtcVars, savedFlag,
                    prev, raw, scale, initResult, countVars, firstDecoded, tw,
                    lastPortUser >>

(* ------------------------------------------------------------------ *)
(* get_floppy_type                                                     *)
(* ------------------------------------------------------------------ *)
floppy_type_from_number(n) ==
    CASE n = 1 -> "Type360kb525"
      [] n = 2 -> "Type1200kb525"
      [] n = 3 -> "Type720kb350"
      [] n = 4 -> "Type1440kb350"
      [] n = 5 -> "Type2880kb350"
      [] OTHER -> "NoDrive"

FloppyDrives(floppy_state) ==
    [call |-> "get_floppy_type",
     master |-> floppy_type_from_number((floppy_state \div 16) % 16),
     slave |-> floppy_type_from_number(floppy_state % 16)]

FloppySelect ==
    /\ Running
    /\ pc = "loaded"
    /\ ReadSelect(FLOPPY_DRIVE_REGISTER)
    /\ pc' = "fl_val"
    /\ ret' = None
    /\ UNCHANGED << intFlag, irqPc, kernelVars, clockVars, rtcVars, savedFlag, prev,
                    raw, scale, initResult, countVars, firstDecoded, tw >>

FloppyRead ==
    /\ Running
    /\ pc = "fl_val"
    /\ ValueIn("read")
    /\ ret' = Some(FloppyDrives(ValuePort))
    /\ pc' = "loaded"
    /\ UNCHANGED << intFlag, irqPc, kernelVars, clockVars, rtcVars, savedFlag, prev,
                    raw, scale, initResult, countVars, firstDecoded, tw >>

(* ------------------------------------------------------------------ *)
(* Module teardown: fini and rtc::fini                                 *)
(* ------------------------------------------------------------------ *)
RtcFiniEnter ==
    /\ Running
    /\ pc = "loaded"
    /\ savedFlag' = intFlag
    /\ intFlag' = WrapDisabled(intFlag)
    /\ pc' = "rf_sel1"
    /\ UNCHANGED << sel, rtcTime, statusA, statusB, statusC, floppyReg, irqLine, irqPc,
                    kernelVars, clockVars, rtcVars, prev, raw, scale, ret, initResult,
                    countVars, firstDecoded, tw, lastPortUser >>

\* select B, read prev, select B, write prev & !0x40
RtcFiniDisable ==
    /\ Running
    /\ \/ /\ pc = "rf_sel1"
          /\ SelectOut(BitOr(STATUS_B_REGISTER, NMI_BIT), "rtc_fini")
          /\ pc' = "rf_read" /\ prev' = prev
       \/ /\ pc = "rf_read"
          /\ ValueIn("rtc_fini")
          /\ pc' = "rf_sel2" /\ prev' = ValuePort
       \/ /\ pc = "rf_sel2"
          /\ SelectOut(BitOr(STATUS_B_REGISTER, NMI_BIT), "rtc_fini")
          /\ pc' = "rf_write" /\ prev' = prev
       \/ /\ pc = "rf_write"
          /\ ValueOut(DisableStatusB(prev), "rtc_fini")
          /\ pc' = "rf_restore" /\ prev' = prev
    /\ MainIoFrame

RtcFiniRestore ==
    /\ Running
    /\ pc = "rf_restore"
    /\ intFlag' = savedFlag
    /\ savedFlag' = FALSE
    /\ prev' = 0
    /\ pc' = "rf_drop"
    /\ UNCHANGED << sel, rtcTime, statusA, statusB, statusC, floppyReg, irqLine, irqPc,
                    kernelVars, clockVars, rtcVars, raw, scale, ret, initResult, countVars,
                    firstDecoded, tw, lastPortUser >>

\* RTC_HANDLE = None: dropping the hook unregisters the callback
RtcFiniDrop ==
    /\ Running
    /\ pc = "rf_drop"
    /\ RTC_HANDLE' = "None"
    /\ callbackRegistered' = FALSE
    /\ pc' = "remove_clock"
    /\ UNCHANGED << sel, rtcTime, statusA, statusB, statusC, floppyReg, irqLine,
                    intFlag, irqPc, clockSources, tickTimestamp, clockVars, COUNTER,
                    localVars, countVars, firstDecoded, tw, lastPortUser >>

\* time::remove_clock_source("CMOS")
RemoveClockSource ==
    /\ Running
    /\ pc = "remove_clock"
    /\ clockSources' = clockSources \ {RemovedName}
    /\ pc' = "finished"
    /\ UNCHANGED << sel, rtcTime, statusA, statusB, statusC, floppyReg, irqLine,
                    intFlag, irqPc, callbackRegistered, tickTimestamp, clockVars,
                    rtcVars, localVars, countVars, firstDecoded, tw, lastPortUser >>

(* ------------------------------------------------------------------ *)
(* Specification                                                       *)
(* ------------------------------------------------------------------ *)
Next ==
    \/ HwUpdateBegin \/ HwUpdateEnd \/ HwPeriodic
    \/ IrqDispatch \/ IrqUnhandled \/ IrqCount \/ IrqResetSelect \/ IrqResetRead
    \/ ModuleInit \/ RtcInitEnter \/ RtcInitEnable \/ RtcInitRate \/ RtcInitRestore
    \/ RtcInitRegister \/ KernelSetInterrupts
    \/ GetTimeCall \/ ClockInitEnter \/ TimeWaitSelect \/ TimeWaitPoll
    \/ ClockReadSelect \/ ClockReadValue \/ ClockDecodeStore \/ ClockDecodePanic
    \/ ClockInitRestore \/ GetTimeReturn
    \/ FloppySelect \/ FloppyRead
    \/ RtcFiniEnter \/ RtcFiniDisable \/ RtcFiniRestore \/ RtcFiniDrop
    \/ RemoveClockSource

Spec == Init /\ [][Next]_vars

(* ------------------------------------------------------------------ *)
(* Properties                                                          *)
(* ------------------------------------------------------------------ *)
IsGetTimeResult == is_some(ret) /\ ret[1].call = "get_time"

\* seconds to the given scale: a multiplication by 1000 per step of scale
SecondsTo(seconds, to) == MulThousand(seconds, ScalePower(to))

\* what the device holds now would decode to
HardwareDecoded ==
    Decode([rtcTime EXCEPT
               !.century = IF century_register THEN @ ELSE DEFAULT_CENTURY],
           statusB, century_register)

\* C1: every value get_time returns is the rescale, from seconds to the scale
\* asked for, of the seconds-since-epoch value the first call decoded, whatever
\* the time registers hold by then.
C1_CacheOnceRescale ==
    IsGetTimeResult =>
        /\ is_some(firstDecoded)
        /\ ret[1].value = SecondsTo(unwrap(firstDecoded), ret[1].scale)

\* C1 witness: a later get_time, in milliseconds, served from the cache after the
\* time registers changed to a time that decodes differently
C1_Witness ==
    /\ IsGetTimeResult
    /\ ret[1].from_cache
    /\ ret[1].scale = "Millisecond"
    /\ HardwareDecoded.ts # unwrap(firstDecoded)

ClockPortPcs == {"tw1_sel", "tw1_val", "tw2_sel", "tw2_val", "rd_sel", "rd_val"}

\* C2: once the timestamp is cached no step changes or clears it, and no step
\* brings get_time or init to a select-port write or a value-port read again.
C2_ReadOnce ==
    [][is_some(timestamp) => (timestamp' = timestamp /\ pc' \notin ClockPortPcs)]_vars

\* C2 witness: get_time has returned from the cache, with the timestamp the
\* first call cached, after interrupts and a register change
C2_Witness ==
    /\ pc = "loaded"
    /\ IsGetTimeResult
    /\ ret[1].from_cache
    /\ timestamp = firstDecoded
    /\ firings > 0
    /\ HardwareDecoded.ts # unwrap(timestamp)

\* positions of read() between its select-port write and its value-port read
ReadValuePcs == {"tw1_val", "tw2_val", "rd_val", "fl_val"}

\* C3: while a read(reg) is between its write to the select port and its read
\* of the value port, the last access to the two ports is that write: nothing
\* else, the handler's reset() included, has used them since.
C3_ReadPairIndivisible ==
    pc \in ReadValuePcs => lastPortUser = "read"

ClockInitPcs == ClockPortPcs \cup {"decode", "ct_restore"}

\* C4: from the start of time_wait to the end of wrap_disable_interrupts in
\* CMOSClock::init interrupts are disabled and the handler does not run, and the
\* interrupt flag is restored only once the timestamp is cached.
C4_InitMasked ==
    /\ pc \in ClockInitPcs => (~intFlag /\ irqPc = "idle")
    /\ pc = "ct_restore" => is_some(timestamp)

\* C4 witness: init is between a select and a read while the device has raised
\* an interrupt that a registered handler would take if interrupts were enabled
C4_Witness ==
    /\ pc = "rd_val"
    /\ irqLine
    /\ callbackRegistered
    /\ savedFlag

\* C5: when time_wait has returned, it has observed the update-in-progress flag
\* set, and the last status it observed had the flag clear.
C5_TimeWaitTwoPhase ==
    (pc = "rd_sel" /\ raw = << >>) => (tw.saw /\ tw.last = "clear")

\* C5 witness: time_wait has returned after being entered in mid-update
C5_Witness ==
    /\ pc = "rd_sel"
    /\ raw = << >>
    /\ tw.entry = "set"

\* C6: after init succeeded and fini ran, the registry no longer holds the
\* clock source under the name get_name reports.
C6_UnregisteredByName ==
    pc = "finished" => get_name \notin clockSources

\* C7: when init reports failure, no clock source of the module is registered,
\* the periodic-interrupt-enable bit is clear and no handler is registered.
C7_NoPartialState ==
    (is_some(initResult) /\ ~unwrap(initResult)) =>
        /\ get_name \notin clockSources
        /\ BitAnd(statusB, PIE_BIT) = 0
        /\ ~callbackRegistered

\* C8: whenever the handler is not running, it has read status register C once
\* for each of its invocations.
C8_HandlerRearms ==
    irqPc = "idle" => acks = firings

\* C8 witness: the handler has returned from the invocation in which the
\* counter reached 8, and from one more
C8_Witness ==
    /\ irqPc = "idle"
    /\ firings = TICKS_PER_MS + 1
    /\ acks = firings
    /\ COUNTER = 1

\* C9: after N returned invocations of the handler the shared timestamp has
\* advanced by N / 8 milliseconds and the counter is N mod 8.
C9_CoalescedTicks ==
    irqPc = "idle" =>
        /\ tickTimestamp = firings \div TICKS_PER_MS
        /\ COUNTER = firings % TICKS_PER_MS

\* C10: once rtc::fini has released the interrupt registration, the
\* periodic-interrupt-enable bit of status register B is clear.
C10_TeardownOrder ==
    (pc \in {"remove_clock", "finished"} /\ ~callbackRegistered /\ RTC_HANDLE = "None")
        => BitAnd(statusB, PIE_BIT) = 0

\* C10 witness: fini has run to its end after the handler had been invoked
C10_Witness ==
    /\ pc = "finished"
    /\ RTC_HANDLE = "None"
    /\ firings > 0
    /\ BitAnd(statusB, PIE_BIT) = 0

(* ------------------------------------------------------------------ *)
(* Teardown from every value of status register B                      *)
(* ------------------------------------------------------------------ *)
\* the module is loaded (init_ returned true) and no call is in progress; status
\* register B holds any byte, as the firmware and other code may have left it
TeardownInit ==
    /\ sel = 0
    /\ rtcTime = Snapshots[1]
    /\ statusA = RateStatusA(38)
    /\ statusB \in 0..255
    /\ statusC = 0
    /\ floppyReg = 64
    /\ irqLine = FALSE
    /\ intFlag \in BOOLEAN
    /\ irqPc = "idle"
    /\ clockSources = {get_name}
    /\ callbackRegistered = TRUE
    /\ tickTimestamp = 0
    /\ century_register \in BOOLEAN
    /\ timestamp = None
    /\ RTC_HANDLE = "Some"
    /\ COUNTER = 0
    /\ pc = "loaded"
    /\ savedFlag = FALSE
    /\ prev = 0
    /\ raw = << >>
    /\ scale = "Second"
    /\ ret = None
    /\ initResult = Some(TRUE)
    /\ firings = 0
    /\ acks = 0
    /\ firstDecoded = None
    /\ tw = NoObservation
    /\ lastPortUser = "rtc_init"

\* fini, with the device's update cycle running beside it
TeardownNext ==
    \/ HwUpdateBegin \/ HwUpdateEnd
    \/ RtcFiniEnter \/ RtcFiniDisable \/ RtcFiniRestore \/ RtcFiniDrop
    \/ RemoveClockSource

TeardownSpec == TeardownInit /\ [][TeardownNext]_vars

FiniPcs == {"rf_sel1", "rf_read", "rf_sel2", "rf_write", "rf_restore", "rf_drop"}

\* a byte with bit 0x40 cleared and every other bit as it was
WithoutPie(b) == b - PIE_BIT * ((b \div PIE_BIT) % 2)

\* a step taken while rtc::fini runs: status register B changes only at fini's
\* write, status register A keeps the bits software can write
FiniStepFrame ==
    pc \in FiniPcs =>
        /\ BitAnd(statusA', 127) = BitAnd(statusA, 127)
        /\ IF pc = "rf_write" /\ pc' = "rf_restore"
           THEN /\ statusB' = WithoutPie(statusB)
                /\ DisableStatusB(statusB') = statusB'
           ELSE statusB' = statusB

\* C11: while rtc::fini runs, status register B changes only at fini's write,
\* which clears bit 0x40 and keeps every other bit, for every prior byte; the
\* bits of status register A that software can write do not change; and the
\* byte fini wrote is the one a second run of the disable would write again.
C11_FiniFrame == [][FiniStepFrame]_vars

\* C11 witness: fini has written status register B, which held 0xC6 before
C11_Witness ==
    /\ pc = "rf_restore"
    /\ prev = 198
    /\ statusB = 134

\* C12: the decode of CMOSClock::init is total: whatever bytes the registers
\* held, no u32 operation of the decode leaves the u32 range, and init does not
\* end in a runtime error.
C12_DecodeTotal ==
    /\ pc = "decode" => ~Decoded.o
    /\ pc # "panicked"

(* ------------------------------------------------------------------ *)
(* The register reads and the decode of CMOSClock::init, from every    *)
(* register content of interest                                        *)
(* ------------------------------------------------------------------ *)
\* years whose every day of every month the device is made to hold
DateYears == {1970, 1972, 2023, 2024}

\* centuries the device is made to hold with every year of the century
YearCenturies == {19, 20, 21}

\* register contents: the snapshots of the main specification; every byte in
\* the hour register; every byte in all the other time registers at once; every
\* day 1..31 of every month of DateYears in binary; every year of YearCenturies
\* in binary
DecodeInputs ==
    SnapshotSet
    \cup {RawTime(0, 0, h, 1, 1, 36, 32) : h \in 0..255}
    \cup {RawTime(b, b, 0, b, b, b, 32) : b \in 0..255}
    \cup {RawTime(0, 0, 0, d, m, y % 100, y \div 100) :
              y \in DateYears, m \in 1..12, d \in 1..31}
    \cup {RawTime(0, 0, 0, 1, 1, yy, cc) : yy \in 0..99, cc \in YearCenturies}

\* the first get_time of a loaded module is inside CMOSClock::init, time_wait
\* has just returned, and the time registers hold one of DecodeInputs
DecodeInit ==
    /\ sel = BitOr(NMI_BIT, STATUS_A_REGISTER)
    /\ rtcTime \in DecodeInputs
    /\ statusA = RateStatusA(38)
    /\ statusB \in {EnableStatusB(b) : b \in InitialStatusB}
    /\ statusC = 0
    /\ floppyReg = 64
    /\ irqLine = FALSE
    /\ intFlag = FALSE
    /\ irqPc = "idle"
    /\ clockSources = {get_name}
    /\ callbackRegistered = TRUE
    /\ tickTimestamp = 0
    /\ century_register \in BOOLEAN
    /\ timestamp = None
    /\ RTC_HANDLE = "Some"
    /\ COUNTER = 0
    /\ pc = "rd_sel"
    /\ savedFlag = TRUE
    /\ prev = 0
    /\ raw = << >>
    /\ scale = "Second"
    /\ ret = None
    /\ initResult = Some(TRUE)
    /\ firings = 0
    /\ acks = 0
    /\ firstDecoded = None
    /\ tw = [entry |-> "clear", saw |-> TRUE, last |-> "clear"]
    /\ lastPortUser = "read"

\* the rest of that get_time
DecodeNext ==
    \/ ClockReadSelect \/ ClockReadValue \/ ClockDecodeStore \/ ClockDecodePanic
    \/ ClockInitRestore \/ GetTimeReturn

DecodeSpec == DecodeInit /\ [][DecodeNext]_vars

\* the Gregorian calendar: the days of month m (1..12) of year y
CalendarLeap(y) == y % 4 = 0 /\ (y % 100 # 0 \/ y % 400 = 0)

DaysInMonth(y, m) ==
    IF m = 2 THEN (IF CalendarLeap(y) THEN 29 ELSE 28)
    ELSE IF m \in {4, 6, 9, 11} THEN 30
    ELSE 31

\* the registers hold, in binary, a day that exists, of 1970 or later
HoldsValidDate ==
    /\ BitAnd(raw[Len(raw)], FORMAT_BCD_FLAG) # 0
    /\ Decoded.year >= 1970
    /\ rtcTime.month \in 1..12
    /\ rtcTime.day \in 1..DaysInMonth(Decoded.year, rtcTime.month)

\* the day after the one the registers hold, as the arguments of
\* get_days_since_epoch: year, zero-based month, zero-based day
DayAfter ==
    LET y == Decoded.year
        m == rtcTime.month
        d == rtcTime.day
    IN  IF d < DaysInMonth(y, m) THEN << y, m - 1, d >>
        ELSE IF m < 12 THEN << y, m, 0 >>
        ELSE << y + 1, 0, 0 >>

\* a <= b for two u32 values
LessOrEqual32(a, b) == a[2] < b[2] \/ (a[2] = b[2] /\ a[1] <= b[1])

\* C13: for every valid date of 1970 or later, the day count get_days_since_epoch
\* computes for the following day is not less than the one it computes for the
\* date itself, across month ends and across 31 December to 1 January.
C13_DaysMonotonic ==
    (pc = "decode" /\ HoldsValidDate) =>
        LessOrEqual32(Decoded.days,
                      get_days_since_epoch(DayAfter[1], W32(DayAfter[2]),
                                           W32(DayAfter[3])).v)

\* the Gregorian calendar: leap years before year y, days of year y before month
\* m (1..12), and the days from 1 January 1970 to day d (1..) of month m of year y
LeapYearsBefore(y) == ((y - 1) \div 4) - ((y - 1) \div 100) + ((y - 1) \div 400)

RECURSIVE DaysBeforeMonth(_, _)
DaysBeforeMonth(y, m) ==
    IF m = 1 THEN 0 ELSE DaysBeforeMonth(y, m - 1) + DaysInMonth(y, m - 1)

CalendarDays(y, m, d) ==
    (y - 1970) * 365 + (LeapYearsBefore(y) - LeapYearsBefore(1970))
    + DaysBeforeMonth(y, m) + (d - 1)

\* C14: for every valid date of 1970 or later, get_days_since_epoch returns the
\* number of days of the Gregorian calendar from 1 January 1970 to that date.
C14_DaysAreCalendarDays ==
    (pc = "decode" /\ HoldsValidDate) =>
        Decoded.days = W32(CalendarDays(Decoded.year, rtcTime.month, rtcTime.day))

\* the registers decode to the epoch example: year 2024, zero-based month 0,
\* zero-based day 0, 00:00:00
EpochExample ==
    /\ HardwareDecoded.year = 2024
    /\ HardwareDecoded.month = W32(0)
    /\ HardwareDecoded.day = W32(0)
    /\ HardwareDecoded.hour = 0
    /\ HardwareDecoded.minute = 0
    /\ HardwareDecoded.second = 0

\* C15: for the epoch example the decoder computes 19723 days and
\* CMOSClock::init caches 19723 * 86400 = 1704067200 seconds.
C15_EpochSeconds ==
    (pc = "ct_restore" /\ EpochExample) =>
        /\ HardwareDecoded.days = W32(19723)
        /\ timestamp = Some(W64(1704067200))

\* C15 witness: init has cached the timestamp of the epoch example, read in
\* BCD with the century register
C15_Witness ==
    /\ pc = "ct_restore"
    /\ EpochExample
    /\ century_register
    /\ BitAnd(statusB, FORMAT_BCD_FLAG) = 0
    /\ is_some(timestamp)

\* C15 as stated: the cached seconds of the epoch example are 1704153600.
C15_EpochSecondsAsStated ==
    (pc = "ct_restore" /\ EpochExample) =>
        /\ HardwareDecoded.days = W32(19723)
        /\ timestamp = Some(W64(1704153600))

\* the device's formats: a value below 100 in BCD, and hour h (0..23) of the
\* 12-hour clock in BCD: clock hour 1..12 with bit 0x80 set from noon on
EncodeBcd(v) == ((v \div 10) * 16) + (v % 10)

Encode12Hour(h) ==
    EncodeBcd(IF h % 12 = 0 THEN 12 ELSE h % 12) + (IF h >= 12 THEN 128 ELSE 0)

\* the status B byte CMOSClock::init read
StatusBRead == raw[Len(raw)]

\* C16: with the BCD and 24-hour flags both clear, the hour register holding
\* hour h of the 12-hour clock in BCD decodes to h, for every h in 0..23.
C16_HourRoundTrip ==
    (/\ pc = "decode"
     /\ BitAnd(StatusBRead, FORMAT_BCD_FLAG) = 0
     /\ BitAnd(StatusBRead, FORMAT_24_FLAG) = 0) =>
        \A h \in 0..23 : raw[3] = Encode12Hour(h) => Decoded.hour = h

\* the decoded fields are the values v: day and month after their decrement
\* (when v is at least 1), the year up to the century added to it
FieldsDecodeTo(second, minute, day, month, year) ==
    /\ Decoded.second = second
    /\ Decoded.minute = minute
    /\ day >= 1 => Decoded.day = W32(day - 1)
    /\ month >= 1 => Decoded.month = W32(month - 1)
    /\ (Decoded.year - year) % 100 = 0

\* C17: with the binary-mode flag of status B clear, a second, minute, day,
\* month or year register holding the BCD encoding of v decodes to v, for every
\* v in 0..59; with the flag set, each of these fields is the byte read.
C17_BcdRoundTrip ==
    pc = "decode" =>
        IF BitAnd(StatusBRead, FORMAT_BCD_FLAG) = 0
        THEN \A v \in 0..59 :
                 /\ raw[1] = EncodeBcd(v) => Decoded.second = v
                 /\ raw[2] = EncodeBcd(v) => Decoded.minute = v
                 /\ (raw[4] = EncodeBcd(v) /\ v >= 1) => Decoded.day = W32(v - 1)
                 /\ (raw[5] = EncodeBcd(v) /\ v >= 1) => Decoded.month = W32(v - 1)
                 /\ raw[6] = EncodeBcd(v) => (Decoded.year - v) % 100 = 0
        ELSE FieldsDecodeTo(raw[1], raw[2], raw[4], raw[5], raw[6])

\* C17 witness: all five registers hold 0x59 in BCD mode and decode to 59
C17_Witness ==
    /\ pc = "decode"
    /\ BitAnd(StatusBRead, FORMAT_BCD_FLAG) = 0
    /\ raw[1] = 89 /\ raw[2] = 89 /\ raw[4] = 89 /\ raw[5] = 89 /\ raw[6] = 89
    /\ FieldsDecodeTo(59, 59, 59, 59, 59)

\* first years of the ranges leap_years_between is compared on
RangeStarts == {1900, 1970, 2000}

\* C18: is_leap_year(y) holds exactly when y is divisible by 4 and not by 100,
\* or by 400, and leap_years_between(a..b) is the number of such years from a
\* up to but not including b, for the year b that the registers decode to.
C18_LeapYears ==
    pc = "decode" =>
        /\ is_leap_year(Decoded.year) <=> CalendarLeap(Decoded.year)
        /\ \A a \in RangeStarts :
               leap_years_between(a, Decoded.year) =
                   IF Decoded.year > a
                   THEN LeapYearsBefore(Decoded.year) - LeapYearsBefore(a)
                   ELSE 0

\* C18 witness: the registers decode to the year 2000, a leap year, which seven
\* leap years since 1970 precede
C18_Witness ==
    /\ pc = "decode"
    /\ Decoded.year = 2000
    /\ is_leap_year(Decoded.year)
    /\ leap_years_between(1970, Decoded.year) = 7

\* rtc::init from its first port access on, and the loaded module after it
StartupPcs ==
    {"ri_b_sel1", "ri_b_read", "ri_b_sel2", "ri_b_write", "ri_a_sel1", "ri_a_read",
     "ri_a_sel2", "ri_a_write", "ri_restore", "ri_register", "loaded"}

\* C19: during and after rtc::init, a periodic interrupt the CPU has taken is
\* never left with status register C unread and no handler running: every
\* firing is acknowledged.
C19_NoUnacknowledgedFiring ==
    (pc \in StartupPcs /\ statusC # 0 /\ ~irqLine) => irqPc # "idle"

\* the value of a BCD byte: low digit plus ten times the high digit
FromBcd(b) == (b % 16) + ((b \div 16) * 10)

\* a byte as the decoder is to take it under the status B byte read
FieldValue(b) == IF BitAnd(StatusBRead, FORMAT_BCD_FLAG) = 0 THEN FromBcd(b) ELSE b

\* C20: without a century register, CMOSClock::init never selects register 0x32
\* and the year is 2000 plus the decoded year field, in BCD and in binary mode;
\* with one, init reads register 0x32 after the year and the year is the decoded
\* year field plus 100 times the century byte, decoded like the other fields.
C20_Century ==
    /\ (pc = "rd_val" /\ ~century_register) => Selected # CENTURY_REGISTER
    /\ (pc = "rd_val" /\ century_register /\ Len(raw) = 6) =>
           Selected = CENTURY_REGISTER
    /\ pc = "decode" =>
           Decoded.year = FieldValue(raw[6])
                          + 100 * (IF century_register THEN FieldValue(raw[7]) ELSE 20)

\* C20 witness: no century register, BCD mode, year register 0x24: year 2024
C20_Witness ==
    /\ pc = "decode"
    /\ ~century_register
    /\ BitAnd(StatusBRead, FORMAT_BCD_FLAG) = 0
    /\ raw[6] = 36
    /\ Decoded.year = 2024

====
